---- MODULE Spec2Model ----
(***************************************************************************)
(* Model of identify_unused_ddb_capacity.py: the report driver             *)
(* identifyUnusedDDBCapacity, the per-subject report                       *)
(* determineUnusedDDBCapacity, and the helpers they call.  The DynamoDB    *)
(* and CloudWatch services are the environment.                            *)
(*                                                                         *)
(* Python values: None and "absent" are the empty sequence, a present      *)
(* value x is <<x>>.  A dict is a function (record) whose DOMAIN is its    *)
(* key set.  A float is an exact rational [num, den] with den > 0, so the  *)
(* comparisons of the code are exact; rounding is not modelled.            *)
(***************************************************************************)
EXTENDS Integers, Sequences, FiniteSets, TLC

VARIABLES pc, tableToCheck, ddb, cloudwatch, tableNames, remaining,
          tableName, indexName, capacityType, readCapacityUnits,
          writeCapacityUnits, datapoints, tableIndexes, trace, error, ret

vars == <<pc, tableToCheck, ddb, cloudwatch, tableNames, remaining,
          tableName, indexName, capacityType, readCapacityUnits,
          writeCapacityUnits, datapoints, tableIndexes, trace, error, ret>>

(***************************************************************************)
(* Bounds of the input spaces.                                             *)
(***************************************************************************)
MaxLen == 3
MaxTs == 2
MaxSum == 3
MaxUnits == 2
MaxDriverSum == 1

None == <<>>
Some(x) == <<x>>

NoError == "none"
Return(v) == [kind |-> "return", value |-> v]
Raise(e) == [kind |-> "raise", value |-> e]

Tables == {"Orders", "Empty"}
IndexNames == {"byCustomer", "byDate"}

(***************************************************************************)
(* Floats as exact rationals.                                              *)
(***************************************************************************)
Rat(n, d) == [num |-> n, den |-> d]
RatGt(a, b) == a.num * b.den > b.num * a.den

\* float(uc) / float(p) * 100, for p # 0
Percent(uc, p) == IF p > 0 THEN Rat(uc * 100, p) ELSE Rat(0 - (uc * 100), 0 - p)

(***************************************************************************)
(* parseDDBTableList: the set of names of a list_tables response.          *)
(***************************************************************************)
Range(s) == {s[i] : i \in DOMAIN s}

parseDDBTableList(inputJson) ==
    IF DOMAIN inputJson = {}
    THEN Raise("cannot parse empty input")
    ELSE IF inputJson.TableNames = <<>>
    THEN Raise("malformed input, does not contain table names")
    ELSE Return(Range(inputJson.TableNames))

(***************************************************************************)
(* getDDBTableGlobalSecondaryIndexNames, applied to the describe_table     *)
(* response resp.                                                          *)
(***************************************************************************)
\* variant: the index list is read without testing that the key is there
getDDBTableGlobalSecondaryIndexNames_NoKeyTest(resp) ==
    IF DOMAIN resp = {} \/ DOMAIN resp.Table = {}
    THEN Raise("Could not retrieve describe table")
    ELSE IF "GlobalSecondaryIndexes" \in DOMAIN resp.Table
    THEN Return([i \in DOMAIN resp.Table.GlobalSecondaryIndexes |->
                    resp.Table.GlobalSecondaryIndexes[i].IndexName])
    ELSE Raise("KeyError")

getDDBTableGlobalSecondaryIndexNames(resp) ==
    IF DOMAIN resp = {} \/ DOMAIN resp.Table = {}
    THEN Raise("Could not retrieve describe table")
    ELSE IF "GlobalSecondaryIndexes" \in DOMAIN resp.Table
    THEN Return([i \in DOMAIN resp.Table.GlobalSecondaryIndexes |->
                    resp.Table.GlobalSecondaryIndexes[i].IndexName])
    ELSE Return(<<>>)

(***************************************************************************)
(* getDDBTableProvisionedCapacity, applied to the describe_table response. *)
(* A return of None (falling off the end of the loop) is Return(None).     *)
(***************************************************************************)
CapacityOf(throughput, capType) ==
    IF capType = "read" THEN Return(Some(throughput.ReadCapacityUnits))
    ELSE IF capType = "write" THEN Return(Some(throughput.WriteCapacityUnits))
    ELSE Raise("Unsupported capacityType")

FirstMatch(gsis, name) ==
    LET hits == {i \in DOMAIN gsis : gsis[i].IndexName = name}
    IN  IF hits = {} THEN 0 ELSE CHOOSE i \in hits : \A j \in hits : i <= j

getDDBTableProvisionedCapacity(resp, capType, idxName) ==
    IF DOMAIN resp = {} \/ "ProvisionedThroughput" \notin DOMAIN resp.Table
    THEN Raise("Could not retrieve describe table")
    ELSE IF idxName = None
    THEN CapacityOf(resp.Table.ProvisionedThroughput, capType)
    ELSE IF "GlobalSecondaryIndexes" \notin DOMAIN resp.Table
    THEN Raise("Cannot find capacity")
    ELSE LET gsis == resp.Table.GlobalSecondaryIndexes
             m == FirstMatch(gsis, idxName[1])
         IN  IF m = 0 THEN Return(None)
             ELSE CapacityOf(gsis[m].ProvisionedThroughput, capType)

(***************************************************************************)
(* getMetricsDataPoints: the dict keyed by str(Timestamp); a later sample  *)
(* with the same key overwrites the earlier one.                           *)
(***************************************************************************)
str(ts) == ToString(ts)

RECURSIVE getMetricsDataPoints(_)
getMetricsDataPoints(inputJson) ==
    IF inputJson = <<>> THEN <<>>
    ELSE LET n == Len(inputJson)
             dp == inputJson[n]
             d == getMetricsDataPoints(SubSeq(inputJson, 1, n - 1))
         IN  [k \in DOMAIN d \cup {str(dp.Timestamp)} |->
                 IF k = str(dp.Timestamp) THEN dp.Sum ELSE d[k]]

(***************************************************************************)
(* The loop of determineUnusedDDBCapacity over the dict: maxUsed starts at *)
(* 0.0 and is replaced by every strictly larger percentage.  The result    *)
(* does not depend on the iteration order of the dict.                     *)
(***************************************************************************)
RECURSIVE MaxUsedOver(_, _, _, _)
MaxUsedOver(d, keys, p, maxUsed) ==
    IF keys = {} THEN maxUsed
    ELSE LET ts == CHOOSE k \in keys : TRUE
             consumedCapacity == Percent(d[ts], p)
         IN  MaxUsedOver(d, keys \ {ts}, p,
                 IF RatGt(consumedCapacity, maxUsed) THEN consumedCapacity
                 ELSE maxUsed)

\* lines 130-141: what is printed as the peak for the fetched Datapoints dps
\* and readCapacityUnits rcu (an option), or the exception raised.  literal
\* tells the text "0" of line 131 from the float of line 141.
\* variant: no test for an empty Datapoints list, the peak taken with max()
ComputeMaxUsed_NoEmptyTest(dps, rcu) ==
    IF dps = <<>> THEN Raise("ValueError")
    ELSE IF rcu = None THEN Raise("TypeError")
    ELSE IF rcu[1] = 0 THEN Raise("ZeroDivisionError")
    ELSE LET d == getMetricsDataPoints(dps)
         IN  Return([literal |-> FALSE,
                     value |-> MaxUsedOver(d, DOMAIN d, rcu[1], Rat(0, 1))])

ComputeMaxUsed(dps, rcu) ==
    IF dps = <<>> THEN Return([literal |-> TRUE, value |-> Rat(0, 1)])
    ELSE IF rcu = None THEN Raise("TypeError")
    ELSE IF rcu[1] = 0 THEN Raise("ZeroDivisionError")
    ELSE LET d == getMetricsDataPoints(dps)
         IN  Return([literal |-> FALSE,
                     value |-> MaxUsedOver(d, DOMAIN d, rcu[1], Rat(0, 1))])

(***************************************************************************)
(* The environment: describe_table descriptors, list_tables responses and  *)
(* CloudWatch series.                                                      *)
(***************************************************************************)
Throughputs == [ReadCapacityUnits : 0..MaxUnits, WriteCapacityUnits : 0..MaxUnits]
IndexDescs == [IndexName : IndexNames, ProvisionedThroughput : Throughputs]

DistinctNames(g) == \A i, j \in DOMAIN g : g[i].IndexName = g[j].IndexName => i = j

GsiLists ==
    {g \in UNION {[1..n -> IndexDescs] : n \in 0..Cardinality(IndexNames)} :
        DistinctNames(g)}

\* every shape of the 'Table' dict of a describe_table response for table t
TableDescriptors(t) ==
    {[TableName |-> t]}
    \cup {[TableName |-> t, ProvisionedThroughput |-> p] : p \in Throughputs}
    \cup {[TableName |-> t, GlobalSecondaryIndexes |-> g] : g \in GsiLists}
    \cup {[TableName |-> t, ProvisionedThroughput |-> p,
           GlobalSecondaryIndexes |-> g] : p \in Throughputs, g \in GsiLists}

Tp(r, w) == [ReadCapacityUnits |-> r, WriteCapacityUnits |-> w]
Gsi(n, r, w) == [IndexName |-> n, ProvisionedThroughput |-> Tp(r, w)]

\* the descriptors the driver is run against
DriverDescriptors(t) ==
    { [TableName |-> t],
      [TableName |-> t, ProvisionedThroughput |-> Tp(1, 1)],
      [TableName |-> t, ProvisionedThroughput |-> Tp(0, 0)],
      [TableName |-> t, ProvisionedThroughput |-> Tp(2, 1),
       GlobalSecondaryIndexes |-> <<>>],
      [TableName |-> t, ProvisionedThroughput |-> Tp(2, 1),
       GlobalSecondaryIndexes |-> <<Gsi("byCustomer", 1, 1)>>],
      [TableName |-> t, ProvisionedThroughput |-> Tp(1, 1),
       GlobalSecondaryIndexes |-> <<Gsi("byDate", 2, 1), Gsi("byCustomer", 0, 0)>>] }

Injective(s) == \A i, j \in DOMAIN s : s[i] = s[j] => i = j

ListResponses ==
    {[TableNames |-> s] :
        s \in {q \in UNION {[1..n -> Tables] : n \in 0..Cardinality(Tables)} :
                  Injective(q)}}

Samples == [Timestamp : 1..MaxTs, Sum : 0..MaxSum]
Series == UNION {[1..n -> Samples] : n \in 0..MaxLen}

\* the series the driver is run against
DriverSeries ==
    {<<>>} \cup {<<[Timestamp |-> 1, Sum |-> v]>> : v \in 0..MaxDriverSum}

\* CloudWatch dimension sets
TableDims(t) == {<<"TableName", t>>}
IndexDims(t, i) == {<<"TableName", t>>, <<"GlobalSecondaryIndexName", i>>}
DimsOf(t, idx) == IF idx = None THEN {TableDims(t)}
                  ELSE {TableDims(t), IndexDims(t, idx[1])}

\* getDDBMetricsStatistics: the request carries the TableName dimension only
getDDBMetricsStatistics(cw, tblName) == [Datapoints |-> cw[TableDims(tblName)]]

(***************************************************************************)
(* The observable history: collaborator calls and printed lines, in order. *)
(***************************************************************************)
Ev(op, t, idx, val) == [op |-> op, table |-> t, index |-> idx, val |-> val]

IsPrint(e) == e.op \in {"print:TableNames", "print:ProvisionedRead",
                        "print:ProvisionedWrite", "print:MaxConsumed",
                        "print:NoIndex"}
Output == SelectSeq(trace, IsPrint)

\* an exception propagates out of identifyUnusedDDBCapacity: nothing catches it
\* variant: the exception is caught and the loop goes on with the next table
Abort_CaughtPerTable(e) ==
    /\ pc' = "NextTable"
    /\ error' = e

Abort(e) ==
    /\ pc' = "Failed"
    /\ error' = e

ClientError == "ClientError"

(***************************************************************************)
(* identifyUnusedDDBCapacity, lines 144-149: list the inventory, parse it  *)
(* and print the table names.                                              *)
(***************************************************************************)
ListTables ==
    /\ pc = "ListTables"
    /\ \E fails \in BOOLEAN, resp \in ListResponses :
         LET parsed == parseDDBTableList(resp)
             call == Ev("list_tables", "", None,
                        IF fails THEN <<>> ELSE <<resp.TableNames>>)
         IN  IF fails
             THEN /\ Abort(ClientError)
                  /\ trace' = Append(trace, call)
                  /\ UNCHANGED <<tableNames, remaining>>
             ELSE IF parsed.kind = "raise"
             THEN /\ Abort(parsed.value)
                  /\ trace' = Append(trace, call)
                  /\ UNCHANGED <<tableNames, remaining>>
             ELSE /\ tableNames' = parsed.value
                  /\ remaining' = parsed.value
                  /\ trace' = trace \o
                        <<call, Ev("print:TableNames", "", None, <<parsed.value>>)>>
                  /\ pc' = "NextTable"
                  /\ UNCHANGED error
    /\ UNCHANGED <<tableToCheck, ddb, cloudwatch, tableName, indexName,
                   capacityType, readCapacityUnits, writeCapacityUnits,
                   datapoints, tableIndexes, ret>>

\* variant: the filter test is inverted
NextTable_FilterInverted ==
    /\ pc = "NextTable"
    /\ IF remaining = {}
       THEN /\ pc' = "Done"
            /\ UNCHANGED <<remaining, tableName, indexName>>
       ELSE \E tn \in remaining :
              /\ remaining' = remaining \ {tn}
              /\ tableName' = tn
              /\ IF tableToCheck # None /\ tableToCheck[1] = tn
                 THEN /\ pc' = "NextTable"
                      /\ UNCHANGED indexName
                 ELSE /\ pc' = "FetchReadCapacity"
                      /\ indexName' = None
    /\ UNCHANGED <<tableToCheck, ddb, cloudwatch, tableNames, capacityType,
                   readCapacityUnits, writeCapacityUnits, datapoints,
                   tableIndexes, trace, error, ret>>

(***************************************************************************)
(* Lines 151-157: the head of the loop over the set of table names (in any *)
(* order), with the tableToCheck filter.                                   *)
(***************************************************************************)
NextTable ==
    /\ pc = "NextTable"
    /\ IF remaining = {}
       THEN /\ pc' = "Done"
            /\ UNCHANGED <<remaining, tableName, indexName>>
       ELSE \E tn \in remaining :
              /\ remaining' = remaining \ {tn}
              /\ tableName' = tn
              /\ IF tableToCheck # None /\ tableToCheck[1] # tn
                 THEN /\ pc' = "NextTable"
                      /\ UNCHANGED indexName
                 ELSE /\ pc' = "FetchReadCapacity"
                      /\ indexName' = None
    /\ UNCHANGED <<tableToCheck, ddb, cloudwatch, tableNames, capacityType,
                   readCapacityUnits, writeCapacityUnits, datapoints,
                   tableIndexes, trace, error, ret>>

(***************************************************************************)
(* determineUnusedDDBCapacity, line 118 or 123: the read capacity of the   *)
(* table or of the index.                                                  *)
(***************************************************************************)
FetchReadCapacity ==
    /\ pc = "FetchReadCapacity"
    /\ \E fails \in BOOLEAN :
         LET r == getDDBTableProvisionedCapacity([Table |-> ddb[tableName]],
                                                 "read", indexName)
         IN  /\ trace' = Append(trace, Ev("getDDBTableProvisionedCapacity",
                                          tableName, indexName, <<"read">>))
             /\ IF fails
                THEN Abort(ClientError) /\ UNCHANGED readCapacityUnits
                ELSE IF r.kind = "raise"
                THEN Abort(r.value) /\ UNCHANGED readCapacityUnits
                ELSE /\ readCapacityUnits' = r.value
                     /\ pc' = "FetchWriteCapacity"
                     /\ UNCHANGED error
    /\ UNCHANGED <<tableToCheck, ddb, cloudwatch, tableNames, remaining,
                   tableName, indexName, capacityType, writeCapacityUnits,
                   datapoints, tableIndexes, ret>>

(***************************************************************************)
(* Lines 119-121 or 124-126: the write capacity, then the two capacity     *)
(* lines.                                                                  *)
(***************************************************************************)
FetchWriteCapacity ==
    /\ pc = "FetchWriteCapacity"
    /\ \E fails \in BOOLEAN :
         LET r == getDDBTableProvisionedCapacity([Table |-> ddb[tableName]],
                                                 "write", indexName)
             call == Ev("getDDBTableProvisionedCapacity", tableName, indexName,
                        <<"write">>)
         IN  IF fails
             THEN /\ Abort(ClientError)
                  /\ trace' = Append(trace, call)
                  /\ UNCHANGED writeCapacityUnits
             ELSE IF r.kind = "raise"
             THEN /\ Abort(r.value)
                  /\ trace' = Append(trace, call)
                  /\ UNCHANGED writeCapacityUnits
             ELSE /\ writeCapacityUnits' = r.value
                  /\ trace' = trace \o
                        << call,
                           Ev("print:ProvisionedRead", tableName, indexName,
                              <<readCapacityUnits>>),
                           Ev("print:ProvisionedWrite", tableName, indexName,
                              <<r.value>>) >>
                  /\ pc' = "FetchMetrics"
                  /\ UNCHANGED error
    /\ UNCHANGED <<tableToCheck, ddb, cloudwatch, tableNames, remaining,
                   tableName, indexName, capacityType, readCapacityUnits,
                   datapoints, tableIndexes, ret>>

(***************************************************************************)
(* Line 128: the consumed-read-capacity series.  CloudWatch holds a series *)
(* for the table and, for an index, one for the index; cloudwatch keeps    *)
(* what it held at the time of the call.                                   *)
(***************************************************************************)
FetchMetrics ==
    /\ pc = "FetchMetrics"
    /\ \E fails \in BOOLEAN, cw \in [DimsOf(tableName, indexName) -> DriverSeries] :
         /\ trace' = Append(trace, Ev("getDDBMetricsStatistics", tableName, None, <<>>))
         /\ IF fails
            THEN Abort(ClientError) /\ UNCHANGED <<cloudwatch, datapoints>>
            ELSE /\ cloudwatch' = cw
                 /\ datapoints' = getDDBMetricsStatistics(cw, tableName).Datapoints
                 /\ pc' = "ComputeUtilization"
                 /\ UNCHANGED error
    /\ UNCHANGED <<tableToCheck, ddb, tableNames, remaining, tableName,
                   indexName, capacityType, readCapacityUnits,
                   writeCapacityUnits, tableIndexes, ret>>

(***************************************************************************)
(* Lines 130-141: the peak and its line; determineUnusedDDBCapacity        *)
(* returns to line 160 (table) or to the loop of line 165 (index).         *)
(***************************************************************************)
ComputeUtilization ==
    /\ pc = "ComputeUtilization"
    /\ LET r == ComputeMaxUsed(datapoints, readCapacityUnits)
       IN  IF r.kind = "raise"
           THEN Abort(r.value) /\ UNCHANGED trace
           ELSE /\ trace' = Append(trace, Ev("print:MaxConsumed", tableName,
                                             None, <<r.value>>))
                /\ pc' = IF indexName = None THEN "EnumerateIndexes"
                         ELSE "NextIndex"
                /\ UNCHANGED error
    /\ UNCHANGED <<tableToCheck, ddb, cloudwatch, tableNames, remaining,
                   tableName, indexName, capacityType, readCapacityUnits,
                   writeCapacityUnits, datapoints, tableIndexes, ret>>

(***************************************************************************)
(* Lines 160-163: the index names of the table, and the line printed when  *)
(* there are none.                                                         *)
(***************************************************************************)
EnumerateIndexes ==
    /\ pc = "EnumerateIndexes"
    /\ \E fails \in BOOLEAN :
         LET r == getDDBTableGlobalSecondaryIndexNames([Table |-> ddb[tableName]])
             call == Ev("getDDBTableGlobalSecondaryIndexNames", tableName, None,
                        IF fails \/ r.kind = "raise" THEN <<>> ELSE <<r.value>>)
         IN  IF fails
             THEN /\ Abort(ClientError)
                  /\ trace' = Append(trace, call)
                  /\ UNCHANGED tableIndexes
             ELSE IF r.kind = "raise"
             THEN /\ Abort(r.value)
                  /\ trace' = Append(trace, call)
                  /\ UNCHANGED tableIndexes
             ELSE /\ tableIndexes' = r.value
                  /\ trace' = IF r.value = <<>>
                              THEN trace \o <<call, Ev("print:NoIndex", tableName,
                                                       None, <<>>)>>
                              ELSE Append(trace, call)
                  /\ pc' = "NextIndex"
                  /\ UNCHANGED error
    /\ UNCHANGED <<tableToCheck, ddb, cloudwatch, tableNames, remaining,
                   tableName, indexName, capacityType, readCapacityUnits,
                   writeCapacityUnits, datapoints, ret>>

\* variant: the loop over the indexes is left after its first iteration
NextIndex_OnlyFirst ==
    /\ pc = "NextIndex"
    /\ IF tableIndexes = <<>>
       THEN /\ pc' = "NextTable"
            /\ UNCHANGED <<indexName, tableIndexes>>
       ELSE /\ indexName' = Some(Head(tableIndexes))
            /\ tableIndexes' = <<>>
            /\ pc' = "FetchReadCapacity"
    /\ UNCHANGED <<tableToCheck, ddb, cloudwatch, tableNames, remaining,
                   tableName, capacityType, readCapacityUnits,
                   writeCapacityUnits, datapoints, trace, error, ret>>

(***************************************************************************)
(* Lines 165-166: the head of the loop over the index names.               *)
(***************************************************************************)
NextIndex ==
    /\ pc = "NextIndex"
    /\ IF tableIndexes = <<>>
       THEN /\ pc' = "NextTable"
            /\ UNCHANGED <<indexName, tableIndexes>>
       ELSE /\ indexName' = Some(Head(tableIndexes))
            /\ tableIndexes' = Tail(tableIndexes)
            /\ pc' = "FetchReadCapacity"
    /\ UNCHANGED <<tableToCheck, ddb, cloudwatch, tableNames, remaining,
                   tableName, capacityType, readCapacityUnits,
                   writeCapacityUnits, datapoints, trace, error, ret>>

(***************************************************************************)
(* A run of identifyUnusedDDBCapacity(region, tableToCheck).               *)
(***************************************************************************)
Init ==
    /\ pc = "ListTables"
    /\ tableToCheck \in {None} \cup {Some(t) : t \in Tables}
    /\ ddb \in {f \in [Tables -> UNION {DriverDescriptors(t) : t \in Tables}] :
                   \A t \in Tables : f[t].TableName = t}
    /\ cloudwatch = <<>>
    /\ tableNames = {}
    /\ remaining = {}
    /\ tableName = ""
    /\ indexName = None
    /\ capacityType = "read"
    /\ readCapacityUnits = None
    /\ writeCapacityUnits = None
    /\ datapoints = <<>>
    /\ tableIndexes = <<>>
    /\ trace = <<>>
    /\ error = NoError
    /\ ret = <<>>

Next ==
    \/ ListTables
    \/ NextTable
    \/ FetchReadCapacity
    \/ FetchWriteCapacity
    \/ FetchMetrics
    \/ ComputeUtilization
    \/ EnumerateIndexes
    \/ NextIndex

Spec == Init /\ [][Next]_vars

(***************************************************************************)
(* The utilization computation of determineUnusedDDBCapacity on its own:   *)
(* lines 130-141 for any fetched series and any provisioned read units     *)
(* (None is what getDDBTableProvisionedCapacity returns for an index it    *)
(* does not find).                                                         *)
(***************************************************************************)
InitCalc ==
    /\ pc = "ComputeUtilization"
    /\ datapoints \in Series
    /\ readCapacityUnits \in {None} \cup {Some(p) : p \in (0 - MaxUnits)..MaxUnits}
    /\ tableToCheck = None
    /\ ddb = [t \in Tables |-> [TableName |-> t]]
    /\ cloudwatch = <<>>
    /\ tableNames = {"Orders"}
    /\ remaining = {}
    /\ tableName = "Orders"
    /\ indexName = None
    /\ capacityType = "read"
    /\ writeCapacityUnits = None
    /\ tableIndexes = <<>>
    /\ trace = <<>>
    /\ error = NoError
    /\ ret = <<>>

NextCalc == ComputeUtilization

SpecCalc == InitCalc /\ [][NextCalc]_vars

(***************************************************************************)
(* getDDBTableProvisionedCapacity on its own: any descriptor of the table, *)
(* any capacity kind, with or without an index name.                       *)
(***************************************************************************)
CapacityKinds == {"read", "write", "delete"}

GetCapacity ==
    /\ pc = "CallCapacity"
    /\ ret' = getDDBTableProvisionedCapacity([Table |-> ddb[tableName]],
                                             capacityType, indexName)
    /\ pc' = "CapacityReturned"
    /\ UNCHANGED <<tableToCheck, ddb, cloudwatch, tableNames, remaining,
                   tableName, indexName, capacityType, readCapacityUnits,
                   writeCapacityUnits, datapoints, tableIndexes, trace, error>>

InitCap ==
    /\ pc = "CallCapacity"
    /\ tableName = "Orders"
    /\ ddb \in [{"Orders"} -> TableDescriptors("Orders")]
    /\ capacityType \in CapacityKinds
    /\ indexName \in {None} \cup {Some(i) : i \in IndexNames}
    /\ tableToCheck = None
    /\ cloudwatch = <<>>
    /\ tableNames = {}
    /\ remaining = {}
    /\ readCapacityUnits = None
    /\ writeCapacityUnits = None
    /\ datapoints = <<>>
    /\ tableIndexes = <<>>
    /\ trace = <<>>
    /\ error = NoError
    /\ ret = <<>>

NextCap == GetCapacity

SpecCap == InitCap /\ [][NextCap]_vars

(***************************************************************************)
(* Vocabulary of the properties.                                           *)
(***************************************************************************)
Last(sq) == sq[Len(sq)]

\* equality of two percentages
RatEq(a, b) == a.num * b.den = b.num * a.den

IsMaxConsumed(e) == e.op = "print:MaxConsumed"
UtilizationLines == SelectSeq(trace, IsMaxConsumed)

IsPrefix(a, b) == Len(a) <= Len(b) /\ SubSeq(b, 1, Len(a)) = a

MaxSumOf(S) == CHOOSE m \in {S[i].Sum : i \in DOMAIN S} : \A i \in DOMAIN S : S[i].Sum <= m

\* the peak of section 4.1: max over all samples of Sum / p * 100, 0 if none
SpecPeak(S, p) == IF S = <<>> THEN Rat(0, 1) ELSE Rat(100 * MaxSumOf(S), p)

Computed == pc \in {"EnumerateIndexes", "NextIndex", "Failed"}

\* an event without the values it carries
Shape(e) ==
    [op |-> e.op, table |-> e.table, index |-> e.index,
     kind |-> IF e.op = "getDDBTableProvisionedCapacity" THEN e.val[1] ELSE ""]
Shapes(tr) == [i \in DOMAIN tr |-> Shape(tr[i])]
Sh(op, t, idx, kind) == [op |-> op, table |-> t, index |-> idx, kind |-> kind]

\* the steps of one subject: capacity, metrics, one utilization line
SubjectSteps(t, idx) ==
    << Sh("getDDBTableProvisionedCapacity", t, idx, "read"),
       Sh("getDDBTableProvisionedCapacity", t, idx, "write"),
       Sh("print:ProvisionedRead", t, idx, ""),
       Sh("print:ProvisionedWrite", t, idx, ""),
       Sh("getDDBMetricsStatistics", t, None, ""),
       Sh("print:MaxConsumed", t, None, "") >>

RECURSIVE IndexSteps(_, _)
IndexSteps(t, idxs) ==
    IF idxs = <<>> THEN <<>>
    ELSE SubjectSteps(t, Some(Head(idxs))) \o IndexSteps(t, Tail(idxs))

\* the index names the enumeration of table t returned in history tr
EnumeratedOf(tr, t) ==
    LET hits == {i \in DOMAIN tr :
                    /\ tr[i].op = "getDDBTableGlobalSecondaryIndexNames"
                    /\ tr[i].table = t /\ tr[i].val # <<>>}
    IN  IF hits = {} THEN <<>> ELSE tr[CHOOSE i \in hits : TRUE].val[1]

TableSteps(t, idxs) ==
    SubjectSteps(t, None)
    \o <<Sh("getDDBTableGlobalSecondaryIndexNames", t, None, "")>>
    \o (IF idxs = <<>> THEN <<Sh("print:NoIndex", t, None, "")>> ELSE <<>>)
    \o IndexSteps(t, idxs)

RECURSIVE RunSteps(_, _)
RunSteps(order, tr) ==
    IF order = <<>> THEN <<>>
    ELSE TableSteps(Head(order), EnumeratedOf(tr, Head(order)))
         \o RunSteps(Tail(order), tr)

RECURSIVE IndexCount(_, _)
IndexCount(order, tr) ==
    IF order = <<>> THEN 0
    ELSE Len(EnumeratedOf(tr, Head(order))) + IndexCount(Tail(order), tr)

HeaderSteps == <<Sh("list_tables", "", None, ""), Sh("print:TableNames", "", None, "")>>

Orders(S) == {q \in [1..Cardinality(S) -> S] : Injective(q)}

Processed == IF tableToCheck = None THEN tableNames
             ELSE tableNames \cap {tableToCheck[1]}

NoIndexes(desc) ==
    \/ "GlobalSecondaryIndexes" \notin DOMAIN desc
    \/ desc.GlobalSecondaryIndexes = <<>>

HasIndex(desc, name) ==
    /\ "GlobalSecondaryIndexes" \in DOMAIN desc
    /\ \E i \in DOMAIN desc.GlobalSecondaryIndexes :
          desc.GlobalSecondaryIndexes[i].IndexName = name

(***************************************************************************)
(* C1: for every non-empty series and every provisioned read units p > 0,  *)
(* the peak that is printed equals the maximum over all samples of         *)
(* Sum / p * 100, also when samples share a timestamp.                     *)
(***************************************************************************)
C1_PeakIsMaxOverAllSamples ==
    (/\ Computed
     /\ datapoints # <<>>
     /\ readCapacityUnits # None
     /\ readCapacityUnits[1] > 0)
    => /\ error = NoError
       /\ trace # <<>>
       /\ IsMaxConsumed(Last(trace))
       /\ RatEq(Last(trace).val[1].value,
                SpecPeak(datapoints, readCapacityUnits[1]))

(***************************************************************************)
(* C2: for provisioned read units that are zero or negative, and for any   *)
(* series, the computation fails and reports no peak.                      *)
(***************************************************************************)
C2_NonPositiveCapacityFails ==
    (/\ Computed
     /\ readCapacityUnits # None
     /\ readCapacityUnits[1] <= 0)
    => /\ pc = "Failed"
       /\ error # NoError
       /\ UtilizationLines = <<>>

(***************************************************************************)
(* C3: the peak reported for a secondary index is computed from the        *)
(* index's own samples and the index's own provisioned read units, and the *)
(* line that reports it names the index.                                   *)
(***************************************************************************)
IndexReported == pc = "NextIndex" /\ indexName # None

C3_IndexPeakFromIndexSamples ==
    (/\ IndexReported
     /\ readCapacityUnits # None
     /\ readCapacityUnits[1] > 0)
    => /\ IsMaxConsumed(Last(trace))
       /\ RatEq(Last(trace).val[1].value,
                SpecPeak(cloudwatch[IndexDims(tableName, indexName[1])],
                         readCapacityUnits[1]))
       /\ Last(trace).index = indexName

(***************************************************************************)
(* C4: a capacity kind outside {read, write} always fails with the         *)
(* unsupported-kind error, whatever the descriptor and the index name are. *)
(***************************************************************************)
C4_UnsupportedKindAlwaysFails ==
    (pc = "CapacityReturned" /\ capacityType \notin {"read", "write"})
    => (ret.kind = "raise" /\ ret.value = "Unsupported capacityType")

(***************************************************************************)
(* C5: with a valid kind and an index name that is not on the table, the   *)
(* call fails with the index-not-found error and never returns a value.    *)
(***************************************************************************)
C5_MissingIndexFails ==
    (/\ pc = "CapacityReturned"
     /\ capacityType \in {"read", "write"}
     /\ indexName # None
     /\ ~HasIndex(ddb[tableName], indexName[1]))
    => /\ ret.kind = "raise"
       /\ ("ProvisionedThroughput" \in DOMAIN ddb[tableName]
              => ret.value = "Cannot find capacity")

(***************************************************************************)
(* C6: a failure of any step stops the run there: the failing step prints  *)
(* nothing, no call and no line follows it, and what was printed before    *)
(* stays.                                                                  *)
(***************************************************************************)
C6_FailureAbortsRun ==
    [][ /\ (error = NoError /\ error' # NoError)
           => (pc' = "Failed" /\ Output' = Output /\ Len(trace') <= Len(trace) + 1)
        /\ error # NoError => (pc' = "Failed" /\ trace' = trace)
        /\ IsPrefix(trace, trace') ]_vars

C6_Witness ==
    /\ pc = "Failed"
    /\ error # NoError
    /\ indexName # None
    /\ tableIndexes # <<>>
    /\ remaining # {}
    /\ Len(UtilizationLines) >= 1

(***************************************************************************)
(* C7: a run without failure performs, table after table, capacity,        *)
(* metrics, one utilization line, the enumeration of the indexes, then per *)
(* enumerated index capacity, metrics, one utilization line; it ends with  *)
(* (processed tables + their indexes) utilization lines.                   *)
(***************************************************************************)
C7_RunFollowsStateMachine ==
    pc = "Done"
    => \E order \in Orders(Processed) :
          /\ Shapes(trace) = HeaderSteps \o RunSteps(order, trace)
          /\ Len(UtilizationLines) = Len(order) + IndexCount(order, trace)

C7_Witness ==
    /\ pc = "Done"
    /\ tableToCheck = None
    /\ Cardinality(tableNames) = 2
    /\ Len(UtilizationLines) >= 5

(***************************************************************************)
(* C8: with a table to check, the inventory is listed in full, nothing is  *)
(* called or printed for any other table, and the requested table is       *)
(* processed as an unfiltered run processes a table.                       *)
(***************************************************************************)
C8_FilterSkipsOtherTables ==
    tableToCheck # None
    => /\ \A i \in DOMAIN trace :
             \/ trace[i].op \in {"list_tables", "print:TableNames"}
             \/ trace[i].table = tableToCheck[1]
       /\ (Len(trace) >= 2 /\ error = NoError)
             => /\ trace[1].op = "list_tables" /\ trace[1].table = ""
                /\ tableNames = Range(trace[1].val[1])
                /\ trace[2].val[1] = tableNames
       /\ pc = "Done"
             => Shapes(trace) = HeaderSteps \o
                   (IF tableToCheck[1] \in tableNames
                    THEN TableSteps(tableToCheck[1],
                                    EnumeratedOf(trace, tableToCheck[1]))
                    ELSE <<>>)

C8_Witness ==
    /\ tableToCheck # None
    /\ pc = "Done"
    /\ Cardinality(tableNames) = 2
    /\ Len(UtilizationLines) >= 2

(***************************************************************************)
(* C9: with an empty series and provisioned read units p > 0 the peak      *)
(* reported is 0, nothing fails, and the run goes on.                      *)
(***************************************************************************)
EmptySeriesCase ==
    /\ datapoints = <<>>
    /\ readCapacityUnits # None
    /\ readCapacityUnits[1] > 0

C9_EmptySeriesReportsZero ==
    [][ (pc = "ComputeUtilization" /\ EmptySeriesCase)
        => /\ error' = NoError
           /\ pc' = (IF indexName = None THEN "EnumerateIndexes" ELSE "NextIndex")
           /\ Len(trace') = Len(trace) + 1
           /\ IsMaxConsumed(Last(trace'))
           /\ Last(trace').table = tableName
           /\ RatEq(Last(trace').val[1].value, Rat(0, 1)) ]_vars

C9_Witness ==
    /\ pc = "NextIndex"
    /\ indexName # None
    /\ EmptySeriesCase
    /\ error = NoError
    /\ IsMaxConsumed(Last(trace))
    /\ RatEq(Last(trace).val[1].value, Rat(0, 1))

(***************************************************************************)
(* C10: for a table without secondary indexes (no index list, or an empty  *)
(* one) the enumeration returns an empty collection and never raises; the  *)
(* driver then reports no index and goes to the next table.                *)
(***************************************************************************)
C10_NoIndexesIsEmptyNotError ==
    /\ [][ (/\ pc = "EnumerateIndexes"
            /\ NoIndexes(ddb[tableName])
            /\ error' # ClientError)
           => /\ error' = NoError
              /\ pc' = "NextIndex"
              /\ tableIndexes' = <<>>
              /\ Last(trace').op = "print:NoIndex"
              /\ trace'[Len(trace') - 1].val = <<(<<>>)>> ]_vars
    /\ [][ (pc = "NextIndex" /\ indexName = None /\ tableIndexes = <<>>)
           => (pc' = "NextTable" /\ trace' = trace
               /\ remaining' = remaining) ]_vars

C10_Witness ==
    /\ pc = "NextTable"
    /\ remaining # {}
    /\ trace # <<>>
    /\ Last(trace).op = "print:NoIndex"
    /\ "GlobalSecondaryIndexes" \notin DOMAIN ddb[tableName]
====
